---- MODULE Spec2Model ----
(***************************************************************************)
(* A model of snowball_option (src/snowball_option-demo.ipynb, lines       *)
(* 49-76): the Black-Scholes-Merton baseline, the simulation loop over     *)
(* n_simulations draws from numpy's process-global generator, and the      *)
(* final blend.                                                            *)
(*                                                                         *)
(* Numbers.  The code computes in IEEE-754 binary floating point.  The     *)
(* model keeps the shape of that arithmetic at a reduced width: a finite   *)
(* number is an integer count of units of 2^-FracBits whose significand    *)
(* has at most MantBits bits, every operation rounds its exact result to   *)
(* the nearest such number (ties to even), and NaN, +Inf and -Inf follow   *)
(* the IEEE rules (0/0, Inf-Inf, 0*Inf and log of a negative are NaN; x/0  *)
(* is +-Inf; NaN propagates).  log, exp, sqrt and the normal CDF are       *)
(* evaluated in fixed point with GuardBits fractional bits and then        *)
(* rounded.  All zeros are +0: the divisors that can be zero here are      *)
(* sigma*sqrt(T) and sigma*sqrt(tau) with sigma >= 0.                      *)
(***************************************************************************)
EXTENDS Integers, Sequences, FiniteSets

\* Width of the significand, in bits (53 in the code's binary64).
MantBits == 9

\* Fractional bits of the smallest spacing: the unit is 2^-FracBits.
FracBits == 8

\* Largest n_simulations a call is made with.
MaxN == 3

\* Calls made in one process (SpecSession).
MaxCalls == 2

GuardBits == FracBits + 4

Pow2[e \in Int] == IF e <= 0 THEN 1 ELSE 2 * Pow2[e - 1]

BitLen[x \in Int] == IF x <= 0 THEN 0 ELSE 1 + BitLen[x \div 2]

Abs(x) == IF x < 0 THEN -x ELSE x

Sgn(x) == IF x < 0 THEN -1 ELSE IF x > 0 THEN 1 ELSE 0

Unit == Pow2[FracBits]

W == Pow2[GuardBits]

(***************************************************************************)
(* Values.                                                                 *)
(***************************************************************************)
Float == [c : {"fin", "nan", "inf"}, v : Int]

Fin(v) == [c |-> "fin", v |-> v]

NaN == [c |-> "nan", v |-> 0]

PInf == [c |-> "inf", v |-> 1]

NInf == [c |-> "inf", v |-> -1]

Inf(s) == IF s < 0 THEN NInf ELSE PInf

IsNaN(a) == a.c = "nan"

IsFin(a) == a.c = "fin"

IsInf(a) == a.c = "inf"

\* The float of a small Python int (exact).
FInt(j) == Fin(j * Unit)

\* num / 2^e as a float, for constants that are exact at this width.
FDyadic(num, e) == Fin((num * Unit) \div Pow2[e])

Zero == Fin(0)

One == FInt(1)

Half == FDyadic(1, 1)

(***************************************************************************)
(* Rounding: n/d >= 0, in units, to the nearest representable number.      *)
(***************************************************************************)
RNE[n \in Int, d \in Int] ==
    LET qq == n \div d
        rr == n % d
    IN IF 2 * rr < d THEN qq
       ELSE IF 2 * rr > d THEN qq + 1
       ELSE IF qq % 2 = 0 THEN qq ELSE qq + 1

RoundPos[n \in Int, d \in Int] ==
    LET qq == n \div d
    IN IF qq < Pow2[MantBits] THEN RNE[n, d]
       ELSE LET s == BitLen[qq] - MantBits
            IN RNE[n, d * Pow2[s]] * Pow2[s]

\* sign * n / d, rounded.
Round[sign \in Int, n \in Int, d \in Int] == Fin(sign * RoundPos[n, d])

\* A representable v > 0 is Mant[v] * 2^Expo[v] with Mant[v] < 2^MantBits.
Expo[v \in Int] == IF BitLen[v] > MantBits THEN BitLen[v] - MantBits ELSE 0

Mant[v \in Int] == v \div Pow2[Expo[v]]

(***************************************************************************)
(* IEEE comparisons: every comparison with NaN is false.                   *)
(***************************************************************************)
FLt(a, b) ==
    /\ ~IsNaN(a) /\ ~IsNaN(b)
    /\ IF IsInf(a) THEN (a.v < 0 /\ ~(IsInf(b) /\ b.v < 0))
       ELSE IF IsInf(b) THEN b.v > 0
       ELSE a.v < b.v

FEq(a, b) == ~IsNaN(a) /\ ~IsNaN(b) /\ a = b

FLe(a, b) == FLt(a, b) \/ FEq(a, b)

FGt(a, b) == FLt(b, a)

FGe(a, b) == FLe(b, a)

(***************************************************************************)
(* Arithmetic.                                                             *)
(***************************************************************************)
FNeg[a \in Float] == IF IsNaN(a) THEN NaN ELSE [c |-> a.c, v |-> -a.v]

FAdd[a \in Float, b \in Float] ==
    IF IsNaN(a) \/ IsNaN(b) THEN NaN
    ELSE IF IsInf(a) THEN (IF IsInf(b) /\ b.v # a.v THEN NaN ELSE a)
    ELSE IF IsInf(b) THEN b
    ELSE Round[Sgn(a.v + b.v), Abs(a.v + b.v), 1]

FSub[a \in Float, b \in Float] == FAdd[a, FNeg[b]]

FMul[a \in Float, b \in Float] ==
    IF IsNaN(a) \/ IsNaN(b) THEN NaN
    ELSE IF IsInf(a) \/ IsInf(b)
         THEN (IF a.v = 0 \/ b.v = 0 THEN NaN ELSE Inf(Sgn(a.v) * Sgn(b.v)))
    ELSE IF a.v = 0 \/ b.v = 0 THEN Zero
    ELSE LET ma == Mant[Abs(a.v)]
             mb == Mant[Abs(b.v)]
             t  == Expo[Abs(a.v)] + Expo[Abs(b.v)] - FracBits
             sg == Sgn(a.v) * Sgn(b.v)
         IN IF t >= 0 THEN Round[sg, ma * mb * Pow2[t], 1]
            ELSE Round[sg, ma * mb, Pow2[-t]]

FDiv[a \in Float, b \in Float] ==
    IF IsNaN(a) \/ IsNaN(b) THEN NaN
    ELSE IF IsInf(a) THEN (IF IsInf(b) THEN NaN
                           ELSE Inf(a.v * (IF b.v < 0 THEN -1 ELSE 1)))
    ELSE IF IsInf(b) THEN Zero
    ELSE IF b.v = 0 THEN (IF a.v = 0 THEN NaN ELSE Inf(Sgn(a.v)))
    ELSE IF a.v = 0 THEN Zero
    ELSE LET ma == Mant[Abs(a.v)]
             mb == Mant[Abs(b.v)]
             t  == Expo[Abs(a.v)] - Expo[Abs(b.v)] + FracBits
             sg == Sgn(a.v) * Sgn(b.v)
         IN IF t >= 0 THEN Round[sg, ma * Pow2[t], mb]
            ELSE Round[sg, ma, mb * Pow2[-t]]

\* np.maximum: NaN if either operand is NaN.
FMax[a \in Float, b \in Float] == IF IsNaN(a) \/ IsNaN(b) THEN NaN ELSE IF FLt(a, b) THEN b ELSE a

(***************************************************************************)
(* Fixed point with GuardBits fractional bits, for the library functions.  *)
(***************************************************************************)
\* round(c * 2^GuardBits) of a constant given as round(c * 2^16).
C16(c) == c \div Pow2[16 - GuardBits]

\* |a| * |b| / W to the nearest unit, with the sign of a * b, without leaving
\* 32 bits.
MulW[a \in Int, b \in Int] ==
    Sgn(a) * Sgn(b)
      * ((Abs(a) \div W) * Abs(b) + ((Abs(a) % W) * Abs(b) + W \div 2) \div W)

Ln2W == C16(45426)

\* The multiple of ln 2 nearest to x (guard units): x = ExpK[x] * ln 2 + rr
\* with |rr| <= ln(2)/2.
ExpK[x \in Int] == (2 * x + Ln2W) \div (2 * Ln2W)

\* exp(rr) in guard units, for the remainder rr of x; ln 2 is taken with 16
\* bits so that the remainder stays exact to a guard unit for every ExpK.
ExpR[x \in Int] ==
    LET c  == Pow2[16 - GuardBits]
        rr == x - (ExpK[x] * 45426 + c \div 2) \div c
        h6 == W + rr \div 6
        h5 == W + MulW[rr, h6] \div 5
        h4 == W + MulW[rr, h5] \div 4
        h3 == W + MulW[rr, h4] \div 3
        h2 == W + MulW[rr, h3] \div 2
    IN W + MulW[rr, h2]

\* exp(x), x <= 0 in guard units, in guard units.
ExpW[x \in Int] ==
    IF ExpK[x] < -(GuardBits + 2) THEN 0 ELSE ExpR[x] \div Pow2[-ExpK[x]]

\* ln(y), W <= y < 2W in guard units, in guard units.
LnW[y \in Int] ==
    LET t  == ((y - W) * W) \div (y + W)
        t2 == MulW[t, t]
        s4 == W \div 9
        s3 == W \div 7 + MulW[t2, s4]
        s2 == W \div 5 + MulW[t2, s3]
        s1 == W \div 3 + MulW[t2, s2]
        s0 == W + MulW[t2, s1]
    IN 2 * MulW[t, s0]

ISqrtR[n \in Int, lo \in Int, hi \in Int] ==
    IF lo >= hi THEN lo
    ELSE LET mid == (lo + hi + 1) \div 2
         IN IF mid * mid <= n THEN ISqrtR[n, mid, hi] ELSE ISqrtR[n, lo, mid - 1]

\* floor(sqrt(n)).
ISqrt[n \in Int] == ISqrtR[n, 0, Pow2[(BitLen[n] + 1) \div 2]]

\* P(Z <= -x) for x >= 0 in guard units, in guard units: erfc(x/sqrt 2)/2 by
\* the five-term rational approximation in t = 1/(1 + p*x/sqrt 2).
PhiTailW[x \in Int] ==
    LET z  == MulW[x, C16(46341)]
        t  == (W * W) \div (W + MulW[C16(21469), z])
        p5 == C16(69560)
        p4 == MulW[t, p5] - C16(95234)
        p3 == MulW[t, p4] + C16(93154)
        p2 == MulW[t, p3] - C16(18645)
        p1 == MulW[t, p2] + C16(16701)
        e  == ExpW[-(MulW[x, x] \div 2)]
        y  == MulW[MulW[t, p1], e] \div 2
    IN IF y < 0 THEN 0 ELSE IF y > W \div 2 THEN W \div 2 ELSE y

\* Guard units to a float.
FromW[x \in Int] == Round[Sgn(x), Abs(x), Pow2[GuardBits - FracBits]]

\* A float of magnitude below 2^(31-GuardBits-FracBits) in guard units.
ToW[v \in Int] == v * Pow2[GuardBits - FracBits]

(***************************************************************************)
(* The library functions.                                                  *)
(***************************************************************************)
\* np.log
FLog[a \in Float] ==
    IF IsNaN(a) THEN NaN
    ELSE IF IsInf(a) THEN (IF a.v > 0 THEN PInf ELSE NaN)
    ELSE IF a.v < 0 THEN NaN
    ELSE IF a.v = 0 THEN NInf
    ELSE LET b  == BitLen[a.v]
             y  == IF GuardBits + 1 >= b THEN a.v * Pow2[GuardBits + 1 - b]
                   ELSE a.v \div Pow2[b - GuardBits - 1]
             kk == b - 1 - FracBits
         IN FromW[kk * Ln2W + LnW[y]]

\* np.exp
FExp[a \in Float] ==
    IF IsNaN(a) THEN NaN
    ELSE IF IsInf(a) THEN (IF a.v > 0 THEN PInf ELSE Zero)
    ELSE IF a.v < -(16 * Unit) THEN Zero
    ELSE IF a.v <= 0 THEN FromW[ExpW[ToW[a.v]]]
    ELSE IF a.v >= 710 * Unit THEN PInf
    ELSE LET g  == GuardBits - FracBits
             kk == ExpK[ToW[a.v]]
         IN IF kk <= g THEN Round[1, ExpR[ToW[a.v]], Pow2[g - kk]]
            ELSE Round[1, ExpR[ToW[a.v]] * Pow2[kk - g], 1]

\* np.sqrt
FSqrt[a \in Float] ==
    IF IsNaN(a) THEN NaN
    ELSE IF IsInf(a) THEN (IF a.v > 0 THEN PInf ELSE NaN)
    ELSE IF a.v < 0 THEN NaN
    ELSE LET n4 == 4 * a.v * Unit
             s  == ISqrt[n4]
         IN Round[1, 2 * s + (IF s * s = n4 THEN 0 ELSE 1), 4]

\* scipy.stats.norm.cdf
FPhi[a \in Float] ==
    IF IsNaN(a) THEN NaN
    ELSE IF IsInf(a) THEN (IF a.v > 0 THEN One ELSE Zero)
    ELSE IF a.v <= -(6 * Unit) THEN Zero
    ELSE IF a.v >= 6 * Unit THEN One
    ELSE IF a.v <= 0 THEN FromW[PhiTailW[ToW[-a.v]]]
    ELSE FromW[W - PhiTailW[ToW[a.v]]]

(***************************************************************************)
(* State.  S .. n_simulations, call_price, prices, values, i and           *)
(* option_price are the locals of the call in progress; stream and rngPos  *)
(* are numpy's process-global generator: the variates its seed yields (as  *)
(* far as they have been revealed) and how many of them have been          *)
(* consumed.  rngPos0, hist and calls record what happened: the generator  *)
(* position at entry, the iterations executed by this call, and the calls  *)
(* that returned.                                                          *)
(***************************************************************************)
VARIABLES S, X, T, r, q, sigma, k, p, n_simulations,
          call_price, prices, values, i, option_price,
          pc, err, stream, rngPos, rngPos0, hist, calls

args == <<S, X, T, r, q, sigma, k, p, n_simulations>>

locals == <<call_price, prices, values, i, option_price>>

vars == <<args, locals, pc, err, stream, rngPos, rngPos0, hist, calls>>

(***************************************************************************)
(* Line 54-56: the baseline price.                                         *)
(***************************************************************************)
d1(aS, aX, aT, ar, aq, asigma) ==
    FDiv[FAdd[FLog[FDiv[aS, aX]],
              FMul[FAdd[FSub[ar, aq], FMul[Half, FMul[asigma, asigma]]], aT]],
         FMul[asigma, FSqrt[aT]]]

\* d2 = d1 - sigma * np.sqrt(T), given d1.
d2(vd1, aT, asigma) == FSub[vd1, FMul[asigma, FSqrt[aT]]]

call_price_of(aS, aX, aT, ar, aq, asigma) ==
    LET vd1 == d1(aS, aX, aT, ar, aq, asigma)
        vd2 == d2(vd1, aT, asigma)
    IN FSub[FMul[FMul[aS, FExp[FMul[FNeg[aq], aT]]], FPhi[vd1]],
            FMul[FMul[aX, FExp[FMul[FNeg[ar], aT]]], FPhi[vd2]]]

\* np.zeros(n)
zeros(n) == [j \in 1..n |-> Zero]

(***************************************************************************)
(* Line 63-71: the body of the loop, for index j and standard normal       *)
(* variate z.                                                              *)
(***************************************************************************)
\* np.random.normal(loc, scale) is loc + scale * z.
normal(loc, scale, z) == FAdd[loc, FMul[scale, z]]

r_i(z) ==
    normal(FDiv[FMul[FSub[r, FMul[Half, FMul[sigma, sigma]]], T], FInt(365)],
           FMul[sigma, FSqrt[FDiv[T, FInt(365)]]],
           z)

S_i(z) == FMul[S, FAdd[One, FMul[k, r_i(z)]]]

\* tau counting the pass just made: T - (i + 1) * T / n_simulations.
tauElapsed(j) == FSub[T, FDiv[FMul[FInt(j + 1), T], FInt(n_simulations)]]

\* T - i * T / n_simulations
tau(j) == FSub[T, FDiv[FMul[FInt(j), T], FInt(n_simulations)]]

\* d1_i, given S_i and the remaining maturity T - i * T / n_simulations.
d1_i(vS, vtau) ==
    FDiv[FAdd[FLog[FDiv[vS, X]],
              FMul[FAdd[FSub[r, q], FMul[Half, FMul[sigma, sigma]]], vtau]],
         FMul[sigma, FSqrt[vtau]]]

d2_i(vd1, vtau) == FSub[vd1, FMul[sigma, FSqrt[vtau]]]

value_i(vS, vtau) ==
    LET vd1 == d1_i(vS, vtau)
        vd2 == d2_i(vd1, vtau)
    IN FSub[FMul[FMul[vS, FExp[FMul[FNeg[q], vtau]]], FPhi[vd1]],
            FMul[FMul[X, FExp[FMul[FNeg[r], vtau]]], FPhi[vd2]]]

\* Store as a slice assignment arr[j:] = v would have it.
StoreSlice(arr, j, v) == [m \in DOMAIN arr |-> IF m >= j + 1 THEN v ELSE arr[m]]

\* arr[j] = v (j counts from 0).
Store(arr, j, v) == [arr EXCEPT ![j + 1] = v]

(***************************************************************************)
(* Line 74: the blend.                                                     *)
(***************************************************************************)
payoff(ps, vs, j) ==
    FMax[FAdd[FMul[k, ps[j]], FMul[FSub[One, k], vs[j]]], Zero]

RECURSIVE SumTo(_, _, _)
SumTo(ps, vs, m) ==
    IF m = 0 THEN Zero ELSE FAdd[SumTo(ps, vs, m - 1), payoff(ps, vs, m)]

\* np.mean: the sum over the number of elements (0/0 for an empty array).
mean(ps, vs) == FDiv[SumTo(ps, vs, Len(ps)), FInt(Len(ps))]

\* blend with the weight (1 + p) on the baseline.
blendPlus(ps, vs) ==
    FAdd[FMul[FAdd[One, p], call_price], FMul[p, mean(ps, vs)]]

blend(ps, vs) ==
    FAdd[FMul[FSub[One, p], call_price], FMul[p, mean(ps, vs)]]

(***************************************************************************)
(* The generator.                                                          *)
(***************************************************************************)
\* Standard normal variates a draw can yield.
ZSet == {FInt(-2), One}

\* The variates the generator can yield at position pos: the one its seed
\* fixed there if that position was reached before, any otherwise.
NextVariate(st, pos) == IF pos < Len(st) THEN {st[pos + 1]} ELSE ZSet

Reveal(st, pos, z) == IF pos < Len(st) THEN st ELSE Append(st, z)

Advance(pos) == pos + 1

\* range(n - 1).
RangeDoneEarly(j, n) == j >= n - 1

\* range(n): the indices 0 .. n-1, each taken once, in increasing order.
RangeDone(j, n) == j >= n

RangeNext(j) == j + 1

(***************************************************************************)
(* Inputs.  Every parameter is a float; n_simulations is an int.  sigma    *)
(* and T range over zero and positive values, r over values >= 0, q over   *)
(* values <= 0 (a negative yield makes the argument of np.exp positive),   *)
(* and X over values > 0.  X = 0 and a negative sigma end the call in      *)
(* Python's ZeroDivisionError (line 54) and numpy's ValueError (line 63);  *)
(* these inputs are left out, so the invalid parameters taken here are     *)
(* T = 0 and sigma = 0, which the code accepts.                            *)
(***************************************************************************)
SSet == {FInt(2)}

XSet == {FInt(1), FInt(2)}

TSet == {Zero, FInt(365)}

RSet == {Zero, FDyadic(1, 7)}

QSet == {FDyadic(-1, 7), Zero}

SigmaSet == {Zero, FDyadic(1, 3), One}

KSet == {Zero, Half, One}

PSet == {Zero, Half, One}

NSet == (-1)..MaxN

(***************************************************************************)
(* Operations.                                                             *)
(***************************************************************************)
Init ==
    /\ S = Zero /\ X = Zero /\ T = Zero /\ r = Zero /\ q = Zero
    /\ sigma = Zero /\ k = Zero /\ p = Zero /\ n_simulations = 0
    /\ call_price = Zero /\ prices = <<>> /\ values = <<>> /\ i = 0
    /\ option_price = Zero
    /\ pc = "idle" /\ err = "none"
    /\ stream = <<>> /\ rngPos = 0 /\ rngPos0 = 0
    /\ hist = <<>> /\ calls = <<>>

\* Line 52-60: bind the arguments, price the baseline, allocate the arrays.
\* np.zeros raises ValueError for a negative length.
Enter(aS, aX, aT, ar, aq, asigma, ak, ap, an) ==
    /\ S' = aS /\ X' = aX /\ T' = aT /\ r' = ar /\ q' = aq
    /\ sigma' = asigma /\ k' = ak /\ p' = ap /\ n_simulations' = an
    /\ call_price' = call_price_of(aS, aX, aT, ar, aq, asigma)
    /\ i' = 0
    /\ option_price' = Zero
    /\ rngPos0' = rngPos
    /\ hist' = <<>>
    /\ IF an < 0
       THEN /\ pc' = "raised" /\ err' = "ValueError"
            /\ prices' = <<>> /\ values' = <<>>
       ELSE /\ pc' = "loop" /\ err' = "none"
            /\ prices' = zeros(an) /\ values' = zeros(an)

\* Line 63-71: one pass of the loop body for index j with variate z.
Body(j, z) ==
    LET vS   == S_i(z)
        vtau == tau(j)
    IN /\ prices' = Store(prices, j, vS)
       /\ values' = Store(values, j, value_i(vS, vtau))
       /\ rngPos' = Advance(rngPos)
       /\ hist' = Append(hist, [i |-> j, tau |-> vtau, z |-> z])

\* A call of snowball_option in a fresh process.
Call ==
    /\ pc = "idle"
    /\ \E aS \in SSet, aX \in XSet, aT \in TSet, ar \in RSet, aq \in QSet,
          asigma \in SigmaSet, ak \in KSet, ap \in PSet, an \in NSet :
          Enter(aS, aX, aT, ar, aq, asigma, ak, ap, an)
    /\ UNCHANGED <<stream, rngPos, calls>>

\* Line 61-71: for i in range(n_simulations).
Iterate ==
    /\ pc = "loop"
    /\ ~RangeDone(i, n_simulations)
    /\ \E z \in NextVariate(stream, rngPos) :
          /\ Body(i, z)
          /\ stream' = Reveal(stream, rngPos, z)
    /\ i' = RangeNext(i)
    /\ UNCHANGED <<args, call_price, option_price, pc, err, rngPos0, calls>>

\* Line 74-76: the range is exhausted; blend and return.
Return ==
    /\ pc = "loop"
    /\ RangeDone(i, n_simulations)
    /\ option_price' = blend(prices, values)
    /\ pc' = "returned"
    /\ calls' = Append(calls, [args |-> args, start |-> rngPos0,
                               stop |-> rngPos, result |-> option_price'])
    /\ UNCHANGED <<args, call_price, prices, values, i, err, stream, rngPos,
                   rngPos0, hist>>

Next == Call \/ Iterate \/ Return

Spec == Init /\ [][Next]_vars

\* A call in a fresh process, its market parameters fixed.
LiveCall ==
    /\ pc = "idle"
    /\ \E aT \in TSet, asigma \in SigmaSet, ap \in PSet, an \in NSet :
          Enter(FInt(2), FInt(2), aT, Zero, Zero, asigma, Half, ap, an)
    /\ UNCHANGED <<stream, rngPos, calls>>

NextLive == LiveCall \/ Iterate \/ Return

SpecLoop == Init /\ [][NextLive]_vars

\* The interpreter keeps running a call it has entered.
FairSpec == SpecLoop /\ WF_vars(Iterate) /\ WF_vars(Return)

(***************************************************************************)
(* A process that calls more than once.  np.random.seed(s), for the one    *)
(* seed s the process uses, puts the generator back at the start of the    *)
(* stream of s.                                                            *)
(***************************************************************************)
SessionPSet == {Half, One}

SessionNSet == {1, 2}

SessionCall ==
    /\ pc \in {"idle", "returned"}
    /\ Len(calls) < MaxCalls
    /\ \E ap \in SessionPSet, an \in SessionNSet :
          Enter(FInt(2), FInt(2), FInt(365), Zero, Zero, One, Half, ap, an)
    /\ UNCHANGED <<stream, rngPos, calls>>

Reseed ==
    /\ pc \in {"idle", "returned"}
    /\ Len(calls) < MaxCalls
    /\ rngPos # 0
    /\ rngPos' = 0
    /\ UNCHANGED <<args, locals, pc, err, stream, rngPos0, hist, calls>>

NextSession == SessionCall \/ Reseed \/ Iterate \/ Return

SpecSession == Init /\ [][NextSession]_vars

(***************************************************************************)
(* Properties.                                                             *)
(***************************************************************************)
Positive(a) == FGt(a, Zero)

\* The parameters the contract admits: S, X, T, sigma > 0.
ValidParams == Positive(S) /\ Positive(X) /\ Positive(T) /\ Positive(sigma)

Ended == pc \in {"returned", "raised"}

\* The call ended in an invalid-parameter error (ValueError is Python's).
Rejected == pc = "raised" /\ err \in {"InvalidParameter", "ValueError"}

Payoffs == {payoff(prices, values, m) : m \in 1..Len(prices)}

\* C1: a call with S, X, T or sigma <= 0 (T = 0 in particular) and a valid
\* n_simulations ends in an invalid-parameter error, returns no price and
\* consumes no random draw.
C1_InvalidParameterRaised ==
    (Ended /\ ~ValidParams /\ n_simulations >= 1)
        => (Rejected /\ rngPos = rngPos0)

\* C2: a call with n_simulations <= 0 (and valid S, X, T, sigma) ends in an
\* invalid-parameter error instead of returning the mean of nothing.
C2_EmptySimulationRejected ==
    (Ended /\ ValidParams /\ n_simulations <= 0) => Rejected

\* C3: for p = 0 (valid S, X, T, sigma, n_simulations >= 1) the returned
\* option_price equals call_price exactly, whatever the draws were.
C3_ZeroProbabilityIsCallPrice ==
    (pc = "returned" /\ ValidParams /\ n_simulations >= 1 /\ p = Zero)
        => FEq(option_price, call_price)

\* C9: for valid S, X, T, sigma and n_simulations >= 1 every simulated price
\* is strictly positive, no value is NaN and the returned price is not NaN.
C9_NoNaNReachesMean ==
    (pc \in {"loop", "returned"} /\ ValidParams /\ n_simulations >= 1)
        => /\ \A m \in 1..Len(hist) :
                /\ Positive(prices[hist[m].i + 1])
                /\ ~IsNaN(values[hist[m].i + 1])
           /\ pc = "returned" => ~IsNaN(option_price)

\* The largest and the smallest of a nonempty set of finite numbers.
MaxOf(A) == CHOOSE a \in A : \A b \in A : b.v <= a.v

MinOf(A) == CHOOSE a \in A : \A b \in A : a.v <= b.v

AllDefined == IsFin(call_price) /\ \A y \in Payoffs : IsFin(y)

\* What the n + 2 roundings between the payoffs and option_price can add up
\* to, in units: each is within 2^-MantBits of its result or half a unit.
RoundingSlack ==
    LET M == MaxOf({Fin(Abs(y.v)) : y \in Payoffs \cup {call_price}}).v
    IN ((n_simulations + 3) * M) \div Pow2[MantBits] + 2

Between(lo, hi) ==
    /\ IsFin(option_price)
    /\ lo.v - RoundingSlack <= option_price.v
    /\ option_price.v <= hi.v + RoundingSlack

\* C4 as claimed (read up to rounding, and for payoffs that are defined):
\* option_price lies between min(call_price, max_i payoff_i) and
\* max(call_price, max_i payoff_i).
C4_BetweenCallAndMaxPayoff ==
    (pc = "returned" /\ n_simulations >= 1 /\ AllDefined)
        => Between(MinOf({call_price, MaxOf(Payoffs)}),
                   MaxOf({call_price, MaxOf(Payoffs)}))

\* C4 as amended: for n_simulations >= 1, if call_price or a payoff is NaN
\* then option_price is NaN; otherwise option_price lies, up to rounding,
\* between min(call_price, min_i payoff_i) and max(call_price, max_i payoff_i).
C4_BetweenCallAndPayoffRange ==
    (pc = "returned" /\ n_simulations >= 1)
        => IF AllDefined
           THEN Between(MinOf({call_price, MinOf(Payoffs)}),
                        MaxOf({call_price, MaxOf(Payoffs)}))
           ELSE IsNaN(option_price)

C4_Witness ==
    /\ pc = "returned" /\ n_simulations = 2 /\ ValidParams /\ AllDefined
    /\ p = Half /\ k = Half
    /\ Cardinality(Payoffs) = 2
    /\ MinOf(Payoffs).v < option_price.v
    /\ option_price.v < call_price.v

\* C5: two calls of the process with identical parameters, the process
\* having one fixed seed, return identical prices, also when one follows
\* the other.
C5_SameArgsSameResult ==
    \A a, b \in 1..Len(calls) :
        calls[a].args = calls[b].args => calls[a].result = calls[b].result

\* The remaining maturities the loop has used: tau_0 = T, strictly
\* decreasing, all positive.
TausDecreaseFromT ==
    /\ \A m \in 1..Len(hist) : Positive(hist[m].tau)
    /\ Len(hist) >= 1 => FEq(hist[1].tau, T)
    /\ \A m \in 2..Len(hist) : FLt(hist[m].tau, hist[m - 1].tau)
    /\ (n_simulations = 1 /\ Ended)
          => (pc = "returned" /\ Len(hist) = 1 /\ FEq(hist[1].tau, T))

\* C6 as claimed: for T > 0 and n_simulations >= 1, tau_0 = T, tau_i is
\* strictly decreasing, tau_i >= T/n > 0, and n_simulations = 1 returns
\* having used tau_0 = T.
C6_TauAtLeastStep ==
    (pc \in {"loop", "returned", "raised"} /\ Positive(T) /\ n_simulations >= 1)
        => /\ TausDecreaseFromT
           /\ \A m \in 1..Len(hist) :
                FGe(hist[m].tau, FDiv[T, FInt(n_simulations)])

\* C6 as amended: for T > 0 and n_simulations >= 1, tau_0 = T, tau_i is
\* strictly decreasing and tau_i > 0, and n_simulations = 1 returns having
\* used tau_0 = T (tau_i >= T/n holds only up to rounding).
C6_TauPositiveDecreasing ==
    (pc \in {"loop", "returned", "raised"} /\ Positive(T) /\ n_simulations >= 1)
        => TausDecreaseFromT

C6_Witness ==
    /\ pc = "returned" /\ n_simulations = 3 /\ Positive(T) /\ Len(hist) = 3
    /\ FLt(hist[3].tau, hist[2].tau)

\* Line 63-68 of pass j: what the pass computes for prices[j] and
\* values[j] from its index and the variate bound to it; it reads the
\* arguments of the call and neither array.
PassOf(j) ==
    LET vS == S_i(hist[j + 1].z)
    IN <<vS, value_i(vS, tau(j))>>

\* PassOf(0), ..., PassOf(m - 1).
RECURSIVE Computed(_)
Computed(m) == IF m = 0 THEN <<>> ELSE Append(Computed(m - 1), PassOf(m - 1))

\* The passes run concurrently from the arrays ps and vs, pass j having
\* made done[j] of its two writes (line 70, then line 71) of what it
\* computed, loc[j + 1]: every way of interleaving the writes that remain
\* ends with the prices and values the loop left.
RECURSIVE Interleaved(_, _, _, _)
Interleaved(ps, vs, done, loc) ==
    IF \A j \in DOMAIN done : done[j] = 2
    THEN ps = prices /\ vs = values
    ELSE \A j \in {m \in DOMAIN done : done[m] < 2} :
            IF done[j] = 0
            THEN Interleaved(Store(ps, j, loc[j + 1][1]), vs,
                             [done EXCEPT ![j] = 1], loc)
            ELSE Interleaved(ps, Store(vs, j, loc[j + 1][2]),
                             [done EXCEPT ![j] = 2], loc)

\* Every interleaving of the n_simulations passes, started on arrays of
\* zeros with no write made.
AnyInterleaving ==
    Interleaved(zeros(n_simulations), zeros(n_simulations),
                [j \in 0..(n_simulations - 1) |-> 0],
                Computed(n_simulations))

\* C7: pass i writes prices[i] and values[i] and nothing else, each slot
\* once (a slot not yet passed is still zero, a slot passed holds what its
\* own pass computed); so the passes, each with its own variate, run in any
\* order or interleaving leave the prices and values of the sequential
\* loop, and with them the option_price line 74 blends from the two arrays.
C7_OrderIndependent ==
    pc \in {"loop", "returned"} =>
        /\ Len(prices) = n_simulations /\ Len(values) = n_simulations
        /\ \A j \in 0..(n_simulations - 1) :
              IF j < Len(hist)
              THEN /\ hist[j + 1].i = j
                   /\ <<prices[j + 1], values[j + 1]>> = PassOf(j)
              ELSE prices[j + 1] = Zero /\ values[j + 1] = Zero
        /\ pc = "returned" =>
              /\ Len(hist) = n_simulations
              /\ AnyInterleaving
              /\ option_price = blend(prices, values)

C7_Witness ==
    /\ pc = "returned" /\ n_simulations = 3 /\ Len(hist) = 3
    /\ prices[1] # prices[3]
    /\ values[1] # values[2]
    /\ IsFin(option_price)
    /\ Interleaved(Store(Store(zeros(3), 2, PassOf(2)[1]), 0, PassOf(0)[1]),
                   Store(zeros(3), 0, PassOf(0)[2]),
                   [j \in 0..2 |-> IF j = 1 THEN 0 ELSE IF j = 2 THEN 1 ELSE 2],
                   Computed(3))

\* C8: a call leaves every state that outlives it, the state of the random
\* source included, as it found it.
C8_GeneratorUntouched ==
    \A m \in 1..Len(calls) : calls[m].stop = calls[m].start

\* The loop has passed the indices 0, 1, ... in increasing order, drawing
\* one variate per pass; it has returned once, after n_simulations passes.
LoopInOrder ==
    /\ \A m \in 1..Len(hist) : hist[m].i = m - 1
    /\ pc = "loop" =>
          /\ i = Len(hist) /\ i <= n_simulations
          /\ rngPos = rngPos0 + i
          /\ calls = <<>>
    /\ pc = "returned" =>
          /\ Len(hist) = n_simulations
          /\ rngPos = rngPos0 + n_simulations
          /\ Len(calls) = 1

\* C10: for n_simulations >= 1 the call terminates, after exactly
\* n_simulations passes for i = 0 .. n-1 in increasing order, one variate
\* each, and one aggregation made after the last pass.
C10_LoopTerminates ==
    /\ [](n_simulations >= 1 => LoopInOrder)
    /\ (pc = "loop" /\ n_simulations >= 1) ~> (pc = "returned")

C10_Witness ==
    /\ pc = "returned" /\ n_simulations = 3 /\ Len(hist) = 3
    /\ rngPos = 3 /\ Len(calls) = 1

====
